---- MODULE Spec2Model ----
(***************************************************************************)
(* Model of pagerank_analysis.py: build_graph, compute_statistics and      *)
(* compute_pagerank.                                                       *)
(*                                                                         *)
(* Python floats are modelled as exact rationals <<num, den>> in lowest    *)
(* terms (den > 0): every statement below is about the arithmetic the code *)
(* performs, without double-precision rounding.                            *)
(***************************************************************************)
EXTENDS Integers, Sequences, FiniteSets, TLC

VARIABLES
    pc,               \* position of the running function
    \* ---- compute_pagerank / compute_statistics arguments
    graph,            \* graph[page] = sequence of link targets
    pages,            \* set of page numbers
    damping,
    tolerance,
    max_iterations,
    \* ---- compute_pagerank locals
    n,
    pagerank,
    incoming,
    dangling_nodes,
    iteration,
    new_pagerank,
    dangling_sum,
    change,
    todo,             \* pages the for loop of line 178 has still to visit
    result,           \* the returned value, <<>> while there is none
    \* ---- compute_statistics locals
    outgoing_counts,
    incoming_values,
    \* ---- build_graph argument
    files_content     \* sequence of <<filename, content>> in dict order

vars == <<pc, graph, pages, damping, tolerance, max_iterations, n, pagerank,
          incoming, dangling_nodes, iteration, new_pagerank, dangling_sum,
          change, todo, result, outgoing_counts, incoming_values,
          files_content>>

(***************************************************************************)
(* Bounds of the model.                                                    *)
(***************************************************************************)
MaxPage == 1          \* corpus pages are drawn from 0..MaxPage
MaxEdges == 2         \* total number of edges of a graph
MaxIter == 3          \* max_iterations is drawn from 0..MaxIter
MaxFiles == 2         \* number of entries of files_content
MaxNameLen == 3       \* number of tokens of a filename

(***************************************************************************)
(* Exact rational arithmetic (the float operators of the code).            *)
(***************************************************************************)
Abs(x) == IF x < 0 THEN -x ELSE x

RECURSIVE GCD(_, _)
GCD(a, b) == IF b = 0 THEN a ELSE GCD(b, a % b)

LCM(a, b) == (a \div GCD(a, b)) * b

\* num/den in lowest terms with a positive denominator (den # 0)
Norm(num, den) ==
    LET g == GCD(Abs(num), Abs(den))
        s == IF den < 0 THEN -1 ELSE 1
    IN  <<s * (num \div g), s * (den \div g)>>

R(num, den) == Norm(num, den)

RAdd(a, b) ==
    LET l == LCM(a[2], b[2])
    IN  Norm(a[1] * (l \div a[2]) + b[1] * (l \div b[2]), l)

RNeg(a) == <<-a[1], a[2]>>

RSub(a, b) == RAdd(a, RNeg(b))

RMul(a, b) ==
    LET g1 == GCD(Abs(a[1]), b[2])
        g2 == GCD(Abs(b[1]), a[2])
    IN  Norm((a[1] \div g1) * (b[1] \div g2), (a[2] \div g2) * (b[2] \div g1))

\* a / b for b # 0
RDiv(a, b) == RMul(a, IF b[1] > 0 THEN <<b[2], b[1]>> ELSE <<-b[2], -b[1]>>)

RAbs(a) == <<Abs(a[1]), a[2]>>

RLess(a, b) ==
    LET l == LCM(a[2], b[2])
    IN  a[1] * (l \div a[2]) < b[1] * (l \div b[2])

RZero == <<0, 1>>
ROne == <<1, 1>>

\* sum(...) over a sequence of rationals
RECURSIVE RSum(_)
RSum(s) == IF s = <<>> THEN RZero ELSE RAdd(Head(s), RSum(Tail(s)))

(***************************************************************************)
(* Iteration order of a set of small non-negative ints: CPython visits     *)
(* them in ascending order (an int hashes to itself).                      *)
(***************************************************************************)
RECURSIVE IterOrder(_)
IterOrder(S) ==
    IF S = {} THEN <<>>
    ELSE LET m == CHOOSE x \in S : \A y \in S : x <= y
         IN  <<m>> \o IterOrder(S \ {m})

Range(s) == {s[i] : i \in DOMAIN s}

\* number of occurrences of x in sequence s
Count(s, x) == Cardinality({i \in DOMAIN s : s[i] = x})

(***************************************************************************)
(* Inputs.                                                                 *)
(***************************************************************************)
PageIds == 0..MaxPage
Targets == 0..(MaxPage + 1)   \* MaxPage + 1 is never a corpus page

EdgeSeqs == UNION {[1..k -> Targets] : k \in 0..MaxEdges}

\* the graphs build_graph produces: one entry per page, edges unvalidated
RECURSIVE TotalEdges(_, _)
TotalEdges(g, S) ==
    IF S = {} THEN 0
    ELSE LET p == CHOOSE x \in S : TRUE
         IN  Len(g[p]) + TotalEdges(g, S \ {p})

GraphsOver(P) == {g \in [P -> EdgeSeqs] : TotalEdges(g, P) <= MaxEdges}

Dampings == {R(1, 2), R(3, 4), R(0, 1), R(1, 1), R(3, 2)}
Tolerances == {R(1, 200), R(1, 2), R(0, 1)}
MaxIterations == 0..MaxIter

(***************************************************************************)
(* compute_pagerank                                                        *)
(***************************************************************************)
\* lines 162-165: incoming[target].append(page), a defaultdict(list)
RECURSIVE AppendAll(_, _, _)
AppendAll(inc, targets, page) ==
    IF targets = <<>> THEN inc
    ELSE LET t == Head(targets)
             old == IF t \in DOMAIN inc THEN inc[t] ELSE <<>>
             upd == [x \in DOMAIN inc \cup {t} |->
                        IF x = t THEN Append(old, page) ELSE inc[x]]
         IN  AppendAll(upd, Tail(targets), page)

RECURSIVE BuildIncoming(_, _, _)
BuildIncoming(inc, g, order) ==
    IF order = <<>> THEN inc
    ELSE BuildIncoming(AppendAll(inc, g[Head(order)], Head(order)), g, Tail(order))

\* variant of DanglingNodes: no page is treated as dangling
DanglingNodesNone(g, order) == <<>>

\* line 168
DanglingNodes(g, order) == SelectSeq(order, LAMBDA p : Len(g[p]) = 0)

\* lines 183-186: the contributions of the incoming pages, added in order
RECURSIVE AddContributions(_, _, _, _, _)
AddContributions(rank, srcs, g, pr, d) ==
    IF srcs = <<>> THEN rank
    ELSE LET q == Head(srcs)
             outgoing_count == Len(g[q])
             r == IF outgoing_count > 0
                  THEN RAdd(rank, RMul(d, RDiv(pr[q], R(outgoing_count, 1))))
                  ELSE rank
         IN  AddContributions(r, Tail(srcs), g, pr, d)

\* variant of PageRankOf: ranks already written in this iteration are read
\* instead of the previous ones (in-place update)
PageRankOfInPlace(page, pr, inc, g, d, dsum, cnt) ==
    LET base == RAdd(RDiv(RSub(ROne, d), R(cnt, 1)),
                     RMul(d, RDiv(dsum, R(cnt, 1))))
        srcs == IF page \in DOMAIN inc THEN inc[page] ELSE <<>>
        cur == [x \in DOMAIN pr |->
                   IF x \in DOMAIN new_pagerank THEN new_pagerank[x] ELSE pr[x]]
    IN  AddContributions(base, srcs, g, cur, d)

\* lines 180-188: the new rank of one page
PageRankOf(page, pr, inc, g, d, dsum, cnt) ==
    LET base == RAdd(RDiv(RSub(ROne, d), R(cnt, 1)),
                     RMul(d, RDiv(dsum, R(cnt, 1))))
        srcs == IF page \in DOMAIN inc THEN inc[page] ELSE <<>>
    IN  AddContributions(base, srcs, g, pr, d)

\* variant of ForPages: every key of the incoming index is visited too
ForPagesKeysOfIncoming(pgs, inc) == pgs \cup DOMAIN inc

\* line 178: the pages the for loop visits
ForPages(pgs, inc) == pgs

\* sum(pagerank.values())
Total(pr) == RSum([i \in 1..Len(IterOrder(DOMAIN pr)) |-> pr[IterOrder(DOMAIN pr)[i]]])

\* variant of Change: the summed per-page change, relative to the old total
ChangePerPage(old, new) ==
    RDiv(RSum([i \in 1..Len(IterOrder(DOMAIN old)) |->
                  RAbs(RSub(new[IterOrder(DOMAIN old)[i]],
                            old[IterOrder(DOMAIN old)[i]]))]),
         Total(old))

\* line 193
Change(old, new) == RDiv(RAbs(RSub(Total(new), Total(old))), Total(old))

Init ==
    /\ pc = "call"
    /\ pages \in SUBSET PageIds
    /\ graph \in GraphsOver(pages)
    /\ damping \in Dampings
    /\ tolerance \in Tolerances
    /\ max_iterations \in MaxIterations
    /\ n = 0
    /\ pagerank = <<>>
    /\ incoming = <<>>
    /\ dangling_nodes = <<>>
    /\ iteration = 0
    /\ new_pagerank = <<>>
    /\ dangling_sum = RZero
    /\ change = RZero
    /\ todo = <<>>
    /\ result = <<>>
    /\ outgoing_counts = <<>>
    /\ incoming_values = <<>>
    /\ files_content = <<>>

\* lines 158-171
Setup ==
    /\ pc = "call"
    /\ n' = Cardinality(pages)
    /\ pagerank' = [page \in pages |-> R(1, Cardinality(pages))]
    /\ incoming' = BuildIncoming(<<>>, graph, IterOrder(pages))
    /\ dangling_nodes' = DanglingNodes(graph, IterOrder(pages))
    /\ iteration' = 0
    /\ pc' = "while"
    /\ UNCHANGED <<graph, pages, damping, tolerance, max_iterations,
                   new_pagerank, dangling_sum, change, todo, result,
                   outgoing_counts, incoming_values, files_content>>

\* lines 172-176
WhileEnter ==
    /\ pc = "while"
    /\ iteration < max_iterations
    /\ new_pagerank' = <<>>
    /\ dangling_sum' = RSum([i \in DOMAIN dangling_nodes |-> pagerank[dangling_nodes[i]]])
    /\ todo' = IterOrder(ForPages(pages, incoming))
    /\ pc' = "for"
    /\ UNCHANGED <<graph, pages, damping, tolerance, max_iterations, n,
                   pagerank, incoming, dangling_nodes, iteration, change,
                   result, outgoing_counts, incoming_values, files_content>>

\* line 172, condition false
WhileExit ==
    /\ pc = "while"
    /\ ~(iteration < max_iterations)
    /\ pc' = "after"
    /\ UNCHANGED <<graph, pages, damping, tolerance, max_iterations, n,
                   pagerank, incoming, dangling_nodes, iteration,
                   new_pagerank, dangling_sum, change, todo, result,
                   outgoing_counts, incoming_values, files_content>>

\* lines 178-188, one page; incoming[page] creates a missing entry
ForPage ==
    /\ pc = "for"
    /\ todo # <<>>
    /\ LET page == Head(todo)
           rank == PageRankOf(page, pagerank, incoming, graph, damping,
                              dangling_sum, n)
       IN  /\ new_pagerank' = [x \in DOMAIN new_pagerank \cup {page} |->
                                  IF x = page THEN rank ELSE new_pagerank[x]]
           /\ incoming' = [x \in DOMAIN incoming \cup {page} |->
                              IF x \in DOMAIN incoming THEN incoming[x] ELSE <<>>]
    /\ todo' = Tail(todo)
    /\ UNCHANGED <<pc, graph, pages, damping, tolerance, max_iterations, n,
                   pagerank, dangling_nodes, iteration, dangling_sum, change,
                   result, outgoing_counts, incoming_values, files_content>>

\* lines 191-200
CheckConvergence ==
    /\ pc = "for"
    /\ todo = <<>>
    /\ Total(pagerank) # RZero
    /\ change' = Change(pagerank, new_pagerank)
    /\ pagerank' = new_pagerank
    /\ iteration' = iteration + 1
    /\ pc' = IF RLess(change', tolerance) THEN "after" ELSE "while"
    /\ UNCHANGED <<graph, pages, damping, tolerance, max_iterations, n,
                   incoming, dangling_nodes, new_pagerank, dangling_sum, todo,
                   result, outgoing_counts, incoming_values, files_content>>

\* line 193 with total_old = 0: ZeroDivisionError leaves the function
DivisionByZero ==
    /\ pc = "for"
    /\ todo = <<>>
    /\ Total(pagerank) = RZero
    /\ pc' = "ZeroDivisionError"
    /\ UNCHANGED <<graph, pages, damping, tolerance, max_iterations, n,
                   pagerank, incoming, dangling_nodes, iteration,
                   new_pagerank, dangling_sum, change, todo, result,
                   outgoing_counts, incoming_values, files_content>>

\* lines 205-208
Return ==
    /\ pc = "after"
    /\ result' = <<pagerank, iteration>>
    /\ pc' = "done"
    /\ UNCHANGED <<graph, pages, damping, tolerance, max_iterations, n,
                   pagerank, incoming, dangling_nodes, iteration,
                   new_pagerank, dangling_sum, change, todo,
                   outgoing_counts, incoming_values, files_content>>

Next ==
    \/ Setup
    \/ WhileEnter
    \/ WhileExit
    \/ ForPage
    \/ CheckConvergence
    \/ DivisionByZero
    \/ Return

Spec == Init /\ [][Next]_vars

(***************************************************************************)
(* Properties of compute_pagerank (checked under Spec).                    *)
(***************************************************************************)
ValidDamping == RLess(RZero, damping) /\ RLess(damping, ROne)

\* damping in (0,1), tolerance > 0, max_iterations > 0
ValidParams ==
    /\ ValidDamping
    /\ RLess(RZero, tolerance)
    /\ max_iterations > 0

\* some edge of the graph leaves the corpus
HasPhantom == \E p \in pages : \E i \in DOMAIN graph[p] : graph[p][i] \notin pages

AllDangling == \A p \in pages : graph[p] = <<>>

\* sum of F over the finite set S, F a function on S
SetSum(S, F) == RSum([i \in 1..Cardinality(S) |-> F[IterOrder(S)[i]]])

Uniform == [p \in pages |-> R(1, Cardinality(pages))]

\* (1-d)/n + d*danglingSum/n computed from the vector pr
BaseRank(pr) ==
    LET cnt == R(Cardinality(pages), 1)
        dang == {q \in pages : Len(graph[q]) = 0}
        dsum == SetSum(dang, [q \in dang |-> pr[q]])
    IN  RAdd(RDiv(RSub(ROne, damping), cnt), RDiv(RMul(damping, dsum), cnt))

\* each page q linking to p counted once
RuleByPages(pr, p) ==
    LET srcs == {q \in pages : p \in Range(graph[q])}
    IN  RAdd(BaseRank(pr),
             RMul(damping,
                  SetSum(srcs, [q \in srcs |-> RDiv(pr[q], R(Len(graph[q]), 1))])))

\* each edge q -> p counted: q contributes once per occurrence of p in graph[q]
RuleByEdges(pr, p) ==
    LET srcs == {q \in pages : p \in Range(graph[q])}
    IN  RAdd(BaseRank(pr),
             RMul(damping,
                  SetSum(srcs, [q \in srcs |->
                      RDiv(RMul(R(Count(graph[q], p), 1), pr[q]),
                           R(Len(graph[q]), 1))])))

\* C1: for a non-empty page set and valid parameters (d in (0,1)), after
\* every performed iteration the ranks sum to 1.
C1_MassConservation ==
    (pc \in {"while", "after", "done"} /\ iteration >= 1
        /\ pages # {} /\ ValidParams)
    => Total(pagerank) = ROne

\* what a caller can read off the returned pair: the loop ran to the ceiling
ResultSaysNotConverged == result[2] = max_iterations

\* C2: with valid parameters and a non-empty page set the call returns, the
\* returned count is the number of iterations performed, between 1 and
\* max_iterations, and the result says "not converged" exactly when the
\* tolerance was never met.
C2_TerminationReported ==
    (pc = "done" /\ ValidParams /\ pages # {})
    => /\ result[2] = iteration
       /\ 1 <= result[2] /\ result[2] <= max_iterations
       /\ ResultSaysNotConverged <=> ~RLess(change, tolerance)

\* C3: the rank vector's keys are exactly the page set, initially and after
\* every iteration, also when edges leave the corpus; such edges do not make
\* the computation fail (for d in (0,1)).
C3_RankKeysArePages ==
    /\ pc # "call" => DOMAIN pagerank = pages
    /\ DOMAIN new_pagerank \subseteq pages
    /\ (pc = "for" /\ todo = <<>>) => DOMAIN new_pagerank = pages
    /\ pc = "done" => DOMAIN result[1] = pages
    /\ (HasPhantom /\ ValidDamping) => pc # "ZeroDivisionError"

C3_Witness ==
    /\ pc = "done"
    /\ HasPhantom
    /\ ValidParams
    /\ result[2] >= 2

\* C4: a call with damping outside (0,1), tolerance <= 0 or
\* max_iterations <= 0 is rejected before anything is computed or returned.
C4_InvalidParameterRejected ==
    (~ValidParams /\ pages # {}) => (pc = "call" /\ pagerank = <<>> /\ result = <<>>)

\* C5: on an empty page set compute_pagerank returns nothing.
C5_EmptyCorpusFails ==
    pages = {} => (pc # "done" /\ result = <<>>)

\* C6: if every page is dangling, a call with valid parameters performs
\* exactly one iteration and returns 1/n for every page.
C6_AllDanglingUniform ==
    (pc = "done" /\ ValidParams /\ pages # {} /\ AllDangling)
    => /\ result[2] = 1
       /\ \A p \in pages : result[1][p] = R(1, Cardinality(pages))

C6_Witness ==
    /\ pc = "done"
    /\ ValidParams
    /\ AllDangling
    /\ Cardinality(pages) >= 2
    /\ max_iterations >= 2

\* C9 as stated: every new rank is (1-d)/n + d*danglingSum/n + d * (sum over
\* the pages q linking to p of rank[q]/outDegree(q)), read from the previous
\* vector.
C9_RuleByPages ==
    (pc = "for" /\ ValidParams) => \A p \in DOMAIN new_pagerank :
                      new_pagerank[p] = RuleByPages(pagerank, p)

\* C9 as amended: every new rank is (1-d)/n + d*danglingSum/n + d * (sum over
\* the edges q -> p, duplicates counted, of rank[q]/outDegree(q)), read from
\* the previous vector, which stays untouched while the new one is filled.
C9_RuleByEdges ==
    pc = "for" => \A p \in DOMAIN new_pagerank :
                      new_pagerank[p] = RuleByEdges(pagerank, p)

C9_Witness ==
    /\ pc = "for"
    /\ todo = <<>>
    /\ ValidParams
    /\ Cardinality(pages) >= 2
    /\ \A p \in pages : new_pagerank[p] # pagerank[p]
    /\ \E q \in pages : \E p \in pages : Count(graph[q], p) >= 2

NoPhantom == ~HasPhantom

\* C10: when every edge target is a page and the parameters are valid,
\* exactly one iteration is performed and the returned vector is the
\* one-step image of the uniform vector.
C10_OneIteration ==
    (pc = "done" /\ ValidParams /\ pages # {} /\ NoPhantom)
    => /\ result[2] = 1
       /\ result[1] = [p \in pages |-> RuleByEdges(Uniform, p)]

C10_Witness ==
    /\ pc = "done"
    /\ ValidParams
    /\ NoPhantom
    /\ max_iterations >= 2
    /\ result[1] # Uniform
    /\ \E p \in pages : RuleByEdges(result[1], p) # result[1][p]

(***************************************************************************)
(* compute_statistics                                                      *)
(***************************************************************************)
\* lines 117-119 for one page: incoming_counts[target] += 1, a defaultdict(int)
RECURSIVE CountTargets(_, _)
CountTargets(cnts, targets) ==
    IF targets = <<>> THEN cnts
    ELSE LET t == Head(targets)
             old == IF t \in DOMAIN cnts THEN cnts[t] ELSE 0
             upd == [x \in DOMAIN cnts \cup {t} |->
                        IF x = t THEN old + 1 ELSE cnts[x]]
         IN  CountTargets(upd, Tail(targets))

\* a sequence with repeated elements dropped
RECURSIVE Distinct(_)
Distinct(s) ==
    IF s = <<>> THEN <<>>
    ELSE <<Head(s)>> \o SelectSeq(Distinct(Tail(s)), LAMBDA x : x # Head(s))

\* variant of TargetsOf: a repeated target is visited once
TargetsOfOnce(g, page) == Distinct(g[page])

\* line 118: the targets of one page, as the inner loop visits them
TargetsOf(g, page) == g[page]

RECURSIVE IncomingCounts(_, _, _)
IncomingCounts(cnts, g, order) ==
    IF order = <<>> THEN cnts
    ELSE IncomingCounts(CountTargets(cnts, TargetsOf(g, Head(order))), g, Tail(order))

RECURSIVE SumInts(_)
SumInts(s) == IF s = <<>> THEN 0 ELSE Head(s) + SumInts(Tail(s))

Sorted(s) == SortSeq(s, LAMBDA a, b : a < b)

\* statistics.mean of a non-empty sequence of ints
Mean(data) == R(SumInts(data), Len(data))

\* statistics.median of a non-empty sequence of ints
Median(data) ==
    LET d == Sorted(data)
        k == Len(d)
    IN  IF k % 2 = 1 THEN R(d[(k \div 2) + 1], 1)
        ELSE R(d[k \div 2] + d[(k \div 2) + 1], 2)

RECURSIVE MaxOf(_)
MaxOf(s) ==
    IF Len(s) = 1 THEN Head(s)
    ELSE LET m == MaxOf(Tail(s)) IN IF Head(s) >= m THEN Head(s) ELSE m

RECURSIVE MinOf(_)
MinOf(s) ==
    IF Len(s) = 1 THEN Head(s)
    ELSE LET m == MinOf(Tail(s)) IN IF Head(s) <= m THEN Head(s) ELSE m

\* statistics.quantiles(data, n=5), method 'exclusive'; a single data point
\* is repeated (Python >= 3.13)
Quintiles(data) ==
    LET d == Sorted(data)
        ld == Len(d)
        m == ld + 1
        cut(i) ==
            LET j0 == (i * m) \div 5
                j == IF j0 < 1 THEN 1 ELSE IF j0 > ld - 1 THEN ld - 1 ELSE j0
                delta == i * m - j * 5
            IN  R(d[j] * (5 - delta) + d[j + 1] * delta, 5)
    IN  IF ld = 1 THEN [i \in 1..4 |-> R(d[1], 1)]
        ELSE [i \in 1..4 |-> cut(i)]

\* lines 124-139 for one of the two distributions
Describe(data) ==
    [average |-> Mean(data), median |-> Median(data), max |-> MaxOf(data),
     min |-> MinOf(data), quintiles |-> Quintiles(data)]

InitStats ==
    /\ pc = "call_stats"
    /\ pages \in SUBSET PageIds
    /\ graph \in GraphsOver(pages)
    /\ damping = RZero
    /\ tolerance = RZero
    /\ max_iterations = 0
    /\ n = 0
    /\ pagerank = <<>>
    /\ incoming = <<>>
    /\ dangling_nodes = <<>>
    /\ iteration = 0
    /\ new_pagerank = <<>>
    /\ dangling_sum = RZero
    /\ change = RZero
    /\ todo = <<>>
    /\ result = <<>>
    /\ outgoing_counts = <<>>
    /\ incoming_values = <<>>
    /\ files_content = <<>>

\* lines 113-121: one value per page, in the iteration order of pages
CountDegrees ==
    /\ pc = "call_stats"
    /\ LET order == IterOrder(pages)
           incoming_counts == IncomingCounts(<<>>, graph, order)
       IN  /\ outgoing_counts' = [i \in DOMAIN order |-> Len(graph[order[i]])]
           /\ incoming_values' = [i \in DOMAIN order |->
                                     IF order[i] \in DOMAIN incoming_counts
                                     THEN incoming_counts[order[i]] ELSE 0]
    /\ pc' = "describe"
    /\ UNCHANGED <<graph, pages, damping, tolerance, max_iterations, n,
                   pagerank, incoming, dangling_nodes, iteration,
                   new_pagerank, dangling_sum, change, todo, result,
                   files_content>>

\* lines 124-141: two data points or more, or one under Python >= 3.13
StatsReturn ==
    /\ pc = "describe"
    /\ Len(outgoing_counts) >= 1
    /\ result' = [outgoing |-> Describe(outgoing_counts),
                  incoming |-> Describe(incoming_values)]
    /\ pc' = "stats_done"
    /\ UNCHANGED <<graph, pages, damping, tolerance, max_iterations, n,
                   pagerank, incoming, dangling_nodes, iteration,
                   new_pagerank, dangling_sum, change, todo,
                   outgoing_counts, incoming_values, files_content>>

\* line 126 on no data (statistics.mean), line 130 on one data point
\* (statistics.quantiles before Python 3.13): StatisticsError
StatsRaise ==
    /\ pc = "describe"
    /\ Len(outgoing_counts) <= 1
    /\ pc' = "StatisticsError"
    /\ UNCHANGED <<graph, pages, damping, tolerance, max_iterations, n,
                   pagerank, incoming, dangling_nodes, iteration,
                   new_pagerank, dangling_sum, change, todo, result,
                   outgoing_counts, incoming_values, files_content>>

NextStats ==
    \/ CountDegrees
    \/ StatsReturn
    \/ StatsRaise

SpecStats == InitStats /\ [][NextStats]_vars

\* number of edges of the graph that leave the corpus
RECURSIVE PhantomEdges(_)
PhantomEdges(S) ==
    IF S = {} THEN 0
    ELSE LET p == CHOOSE x \in S : TRUE
         IN  Cardinality({i \in DOMAIN graph[p] : graph[p][i] \notin pages})
             + PhantomEdges(S \ {p})

\* number of edges from pages of S to page p, duplicates counted
RECURSIVE EdgesInto(_, _)
EdgesInto(S, p) ==
    IF S = {} THEN 0
    ELSE LET q == CHOOSE x \in S : TRUE
         IN  Count(graph[q], p) + EdgesInto(S \ {q}, p)

\* C7: compute_statistics builds one out-degree and one in-degree per page;
\* the out-degree of p is the length of graph[p], the in-degree of p is the
\* number of edges from pages to p (duplicates counted), and the in-degrees
\* sum to the out-degrees' sum minus the number of edges leaving the corpus.
C7_DegreeValues ==
    pc \in {"describe", "stats_done", "StatisticsError"}
    => /\ Len(outgoing_counts) = Cardinality(pages)
       /\ Len(incoming_values) = Cardinality(pages)
       /\ \A i \in 1..Cardinality(pages) :
              /\ outgoing_counts[i] = Len(graph[IterOrder(pages)[i]])
              /\ incoming_values[i] = EdgesInto(pages, IterOrder(pages)[i])
       /\ SumInts(incoming_values) = SumInts(outgoing_counts) - PhantomEdges(pages)

C7_Witness ==
    /\ pc = "stats_done"
    /\ Cardinality(pages) >= 2
    /\ PhantomEdges(pages) >= 1
    /\ \E i \in DOMAIN incoming_values : incoming_values[i] >= 1

(***************************************************************************)
(* build_graph.  A filename is a sequence of tokens: the digit "7", the    *)
(* sign "-", a blank, the underscore, some other character "x", and the    *)
(* substring ".html".  A document is a sequence of anchors and other text. *)
(***************************************************************************)
Alphabet == {"7", "-", " ", "_", "x", ".html"}

Names == UNION {[1..k -> Alphabet] : k \in 0..MaxNameLen}

Anchor(attr, target) == [tag |-> "a", attr |-> attr, target |-> target]

Contents == {<<>>, <<Anchor("HREF", 8), Anchor("href", 7), Anchor("HREF", 7)>>}

\* the mappings handed to build_graph: distinct keys, in dict order
FilesContents ==
    UNION {{f \in [1..k -> Names \X Contents] :
               \A i, j \in 1..k : f[i][1] = f[j][1] => i = j} : k \in 0..MaxFiles}

\* lines 76-81: the targets of the anchors <a HREF="NUMBER.html">, in order
parse_links(html_content) ==
    LET found == SelectSeq(html_content,
                           LAMBDA e : e.tag = "a" /\ e.attr = "HREF")
    IN  [i \in DOMAIN found |-> found[i].target]

\* filename.replace('.html', ''): every occurrence is removed
RemoveHtml(filename) == SelectSeq(filename, LAMBDA t : t # ".html")

RECURSIVE LStrip(_)
LStrip(s) == IF s # <<>> /\ Head(s) = " " THEN LStrip(Tail(s)) ELSE s

RECURSIVE RStrip(_)
RStrip(s) ==
    IF s # <<>> /\ s[Len(s)] = " " THEN RStrip(SubSeq(s, 1, Len(s) - 1)) ELSE s

\* the digits of an int literal: single underscores between digits allowed
IsDigits(b) ==
    /\ b # <<>>
    /\ b[1] = "7" /\ b[Len(b)] = "7"
    /\ \A i \in DOMAIN b : b[i] \in {"7", "_"}
    /\ \A i \in 1..(Len(b) - 1) : ~(b[i] = "_" /\ b[i + 1] = "_")

RECURSIVE DigitsValue(_)
DigitsValue(b) ==
    IF b = <<>> THEN 0
    ELSE LET rest == DigitsValue(SubSeq(b, 1, Len(b) - 1))
         IN  IF b[Len(b)] = "7" THEN 10 * rest + 7 ELSE rest

\* int(s): blanks around are stripped, one sign is accepted
IntOf(s) ==
    LET t == RStrip(LStrip(s))
        neg == t # <<>> /\ Head(t) = "-"
        body == IF neg THEN Tail(t) ELSE t
    IN  [ok |-> IsDigits(body),
         value |-> IF neg THEN -DigitsValue(body) ELSE DigitsValue(body)]

\* lines 94 and 99
PageNum(filename) == IntOf(RemoveHtml(filename))

InitBuild ==
    /\ pc = "call_build"
    /\ files_content \in FilesContents
    /\ pages = {}
    /\ graph = <<>>
    /\ incoming = <<>>
    /\ damping = RZero
    /\ tolerance = RZero
    /\ max_iterations = 0
    /\ n = 0
    /\ pagerank = <<>>
    /\ dangling_nodes = <<>>
    /\ iteration = 0
    /\ new_pagerank = <<>>
    /\ dangling_sum = RZero
    /\ change = RZero
    /\ todo = <<>>
    /\ result = <<>>
    /\ outgoing_counts = <<>>
    /\ incoming_values = <<>>

\* lines 87-95, every int() succeeding
ParseNames ==
    /\ pc = "call_build"
    /\ \A i \in DOMAIN files_content : PageNum(files_content[i][1]).ok
    /\ pages' = {PageNum(files_content[i][1]).value : i \in DOMAIN files_content}
    /\ pc' = "links"
    /\ UNCHANGED <<graph, damping, tolerance, max_iterations, n, pagerank,
                   incoming, dangling_nodes, iteration, new_pagerank,
                   dangling_sum, change, todo, result, outgoing_counts,
                   incoming_values, files_content>>

\* line 94: int() raises ValueError, which leaves build_graph
ParseNamesRaise ==
    /\ pc = "call_build"
    /\ \E i \in DOMAIN files_content : ~PageNum(files_content[i][1]).ok
    /\ pc' = "ValueError"
    /\ UNCHANGED <<graph, pages, damping, tolerance, max_iterations, n,
                   pagerank, incoming, dangling_nodes, iteration,
                   new_pagerank, dangling_sum, change, todo, result,
                   outgoing_counts, incoming_values, files_content>>

\* lines 98-101: graph[page_num] = outgoing_links, file after file
RECURSIVE LinkAll(_, _)
LinkAll(g, files) ==
    IF files = <<>> THEN g
    ELSE LET page_num == PageNum(Head(files)[1]).value
             outgoing_links == parse_links(Head(files)[2])
             upd == [x \in DOMAIN g \cup {page_num} |->
                        IF x = page_num THEN outgoing_links ELSE g[x]]
         IN  LinkAll(upd, Tail(files))

\* lines 98-105: incoming[target].append(page_num), file after file
RECURSIVE IncomingAll(_, _)
IncomingAll(inc, files) ==
    IF files = <<>> THEN inc
    ELSE IncomingAll(AppendAll(inc, parse_links(Head(files)[2]),
                               PageNum(Head(files)[1]).value),
                     Tail(files))

\* lines 97-107
BuildLinks ==
    /\ pc = "links"
    /\ graph' = LinkAll(<<>>, files_content)
    /\ incoming' = IncomingAll(<<>>, files_content)
    /\ result' = <<graph', incoming', pages>>
    /\ pc' = "built"
    /\ UNCHANGED <<pages, damping, tolerance, max_iterations, n, pagerank,
                   dangling_nodes, iteration, new_pagerank, dangling_sum,
                   change, todo, outgoing_counts, incoming_values,
                   files_content>>

NextBuild ==
    \/ ParseNames
    \/ ParseNamesRaise
    \/ BuildLinks

SpecBuild == InitBuild /\ [][NextBuild]_vars

\* <digits>.html: one or more digits, then the suffix once
WellFormed(filename) ==
    /\ Len(filename) >= 2
    /\ filename[Len(filename)] = ".html"
    /\ \A i \in 1..(Len(filename) - 1) : filename[i] = "7"

\* C8: build_graph returns nothing when some key is not <digits>.html, and
\* it does not fail when every key is.
C8_MalformedRejected ==
    /\ (\E i \in DOMAIN files_content : ~WellFormed(files_content[i][1]))
           => (pc # "built" /\ result = <<>>)
    /\ (\A i \in DOMAIN files_content : WellFormed(files_content[i][1]))
           => pc # "ValueError"

====
